---- MODULE Spec2Model ----
(***************************************************************************)
(* Job lifecycle orchestration of the gretel python client:                *)
(*   - BaseReport._await_completion (evaluation/reports.py), the           *)
(*     completion poller with its bounded refresh-retry budget;            *)
(*   - the record commands of cli/records.py (generate, transform,         *)
(*     classify, run): runner override, flag validation, data source       *)
(*     resolution and create_and_run_record_handler;                       *)
(*   - BaseReport.run and the accessors as_dict and as_html.               *)
(* The poller is followed together with the job's status at the service.   *)
(* The parts are checked under separate specifications (SpecPoller,        *)
(* SpecCli, SpecReport, and SpecJobs for the commands and the report       *)
(* together); each leaves the other parts' variables at their idle values. *)
(***************************************************************************)
EXTENDS Integers, Sequences, FiniteSets, TLC

VARIABLES
    pc,                 \* position of _await_completion
    refresh_attempts,   \* local variable refresh_attempts
    status,             \* job.status as held by the job object
    history,            \* ghost: outcome of every refresh so far ("fail" or the status it read)
    sleeps,             \* ghost: number of time.sleep(10) calls made
    remote,             \* the job's status at the service
    ended_at,           \* ghost: refresh attempts made when the job reached an end state at the service, -1 before
    args,               \* the command invoked and its options, as click hands them over
    cpc,                \* position of the command
    runner,             \* local variable runner of the command
    error,              \* the exception that ended the command, if any
    data_source,        \* local variable data_source of the command
    ref_data,           \* local variable ref_data of run (the caller-facing RefData)
    config_ref_data,    \* local variable config_ref_data (the service-facing RefData)
    calls,              \* ghost: the calls made on collaborators, in order
    uploads,            \* ghost: the paths handed to sc.project.upload_artifact, in order
    submits,            \* ghost: the arguments of record_handler._submit
    cleanup,            \* the session's cleanup registry (sc.register_cleanup)
    container,          \* the ContainerRun of the command
    rh_status,          \* record_handler.status
    exit_code,          \* the exit code requested of the session
    rpc,                \* position of BaseReport.run
    report,             \* the report object: runner_mode, project, _model_run, _report_dict, _report_html
    runs,               \* ghost: run() calls started and returned, the outcome and the calls of the latest
    read                \* ghost: the latest read of as_dict or as_html and what it gave

pollerVars == <<pc, refresh_attempts, status, history, sleeps, remote, ended_at>>

cliVars == <<args, cpc, runner, error, data_source, ref_data, config_ref_data,
             calls, uploads, submits, cleanup, container, rh_status, exit_code>>

vars == <<pc, refresh_attempts, status, history, sleeps, remote, ended_at,
          args, cpc, runner, error, data_source, ref_data, config_ref_data,
          calls, uploads, submits, cleanup, container, rh_status, exit_code,
          rpc, report, runs, read>>

reportVars == <<rpc, report, runs, read>>

(***************************************************************************)
(* Bounds                                                                  *)
(***************************************************************************)
\* the poller is followed for at most this many refresh attempts
MaxRefresh == 8

(***************************************************************************)
(* Job statuses (projects/jobs.py)                                         *)
(***************************************************************************)
COMPLETED == "completed"

ACTIVE == "active"

Status == {"created", "pending", "active", "completed", "cancelled", "error", "lost"}

END_STATES == {"completed", "cancelled", "error", "lost"}

FAIL == "fail"

(***************************************************************************)
(* BaseReport._await_completion                                            *)
(***************************************************************************)
\* the retry budget of the refresh call
RefreshLimit == 5

LostContactOffByOne(n) == n > RefreshLimit

\* reports.py:92  if refresh_attempts >= 5
LostContact(n) == n >= RefreshLimit

CounterKeptOnSuccess(n) == n

\* reports.py:99  refresh_attempts = 0
CounterAfterSuccess(n) == 0

CounterAfterFailureNotCounted(n) == n

\* reports.py:102  refresh_attempts = refresh_attempts + 1
CounterAfterFailure(n) == n + 1

ClassifyCompletedContinues(s) ==
    IF s \in END_STATES \ {COMPLETED} THEN "unsuccessful" ELSE "check"

ClassifyAnyEndReturns(s) ==
    IF s \in END_STATES THEN "returned" ELSE "check"

\* reports.py:110-115  where the loop goes for the status it holds
Classify(s) ==
    IF s = COMPLETED THEN "returned"
    ELSE IF s \in END_STATES THEN "unsuccessful"
    ELSE "check"

PollerInit ==
    /\ pc = "check"
    /\ refresh_attempts = 0
    /\ status \in Status
    /\ history = <<>>
    /\ sleeps = 0
    /\ remote = status
    /\ ended_at = (IF status \in END_STATES THEN 0 ELSE -1)

AfterBudgetCheckSleepSkipped(n) ==
    IF LostContact(n) THEN "lost_contact" ELSE "refresh"

\* reports.py:92-95  raise "Lost contact with job", or go on to time.sleep(10)
AfterBudgetCheck(n) ==
    IF LostContact(n) THEN "lost_contact" ELSE "sleep"

\* reports.py:91-93  top of the loop: raise once the budget is used up
CheckBudget ==
    /\ pc = "check"
    /\ pc' = AfterBudgetCheck(refresh_attempts)
    /\ UNCHANGED <<refresh_attempts, status, history, sleeps, remote, ended_at>>
    /\ UNCHANGED cliVars
    /\ UNCHANGED reportVars

\* reports.py:95  time.sleep(10)
Sleep ==
    /\ pc = "sleep"
    /\ Len(history) < MaxRefresh
    /\ sleeps' = sleeps + 1
    /\ pc' = "refresh"
    /\ UNCHANGED <<refresh_attempts, status, history, remote, ended_at>>
    /\ UNCHANGED cliVars
    /\ UNCHANGED reportVars

\* an end state is final at the service; any other status may be followed by
\* any status
RemoteSuccessors(r) == IF r \in END_STATES THEN {r} ELSE Status

\* ghost: the number of refresh attempts made when the job ended
EndedAtAfter(s) ==
    IF ended_at = -1 /\ s \in END_STATES THEN Len(history) ELSE ended_at

\* the job reaches an end state at the service while the poller is between two
\* reads; followed where RefreshLimit further attempts are still followed
RemoteEnds ==
    /\ pc \in {"check", "sleep", "refresh", "inspect"}
    /\ remote \notin END_STATES
    /\ Len(history) + RefreshLimit <= MaxRefresh
    /\ \E s \in END_STATES :
        /\ remote' = s
        /\ ended_at' = EndedAtAfter(s)
    /\ UNCHANGED <<pc, refresh_attempts, status, history, sleeps>>
    /\ UNCHANGED cliVars
    /\ UNCHANGED reportVars

\* reports.py:97-99  job.refresh() succeeds and stores the status it read,
\* which is the status the job has at the service by then
RefreshSucceeds ==
    /\ pc = "refresh"
    /\ \E s \in RemoteSuccessors(remote) :
        /\ remote' = s
        /\ status' = s
        /\ history' = Append(history, s)
        /\ ended_at' = EndedAtAfter(s)
    /\ refresh_attempts' = CounterAfterSuccess(refresh_attempts)
    /\ pc' = "inspect"
    /\ UNCHANGED sleeps
    /\ UNCHANGED cliVars
    /\ UNCHANGED reportVars

\* reports.py:100-106  job.refresh() raises; the job object keeps its status
RefreshFails ==
    /\ pc = "refresh"
    /\ history' = Append(history, FAIL)
    /\ refresh_attempts' = CounterAfterFailure(refresh_attempts)
    /\ pc' = "inspect"
    /\ UNCHANGED <<status, sleeps, remote, ended_at>>
    /\ UNCHANGED cliVars
    /\ UNCHANGED reportVars

\* reports.py:108-115  status = job.status; break / raise / continue
InspectStatus ==
    /\ pc = "inspect"
    /\ pc' = Classify(status)
    /\ UNCHANGED <<refresh_attempts, status, history, sleeps, remote, ended_at>>
    /\ UNCHANGED cliVars
    /\ UNCHANGED reportVars

NextPoller ==
    \/ CheckBudget
    \/ Sleep
    \/ RefreshSucceeds
    \/ RefreshFails
    \/ InspectStatus
    \/ RemoteEnds

PollerIdle ==
    /\ pc = "idle"
    /\ refresh_attempts = 0
    /\ status = "created"
    /\ history = <<>>
    /\ sleeps = 0
    /\ remote = "created"
    /\ ended_at = -1

(***************************************************************************)
(* cli/records.py: values of the options                                   *)
(***************************************************************************)
\* Python's None
None == "<None>"

\* records.py:28  LOCAL (a reserved word here)
LOCAL_SENTINEL == "__local__"

\* RunnerMode.CLOUD.value, RunnerMode.LOCAL.value, RunnerMode.MANUAL.value
RunnerCloud == "cloud"

RunnerLocal == "local"

RunnerManual == "manual"

RunnerMode == {RunnerCloud, RunnerLocal, RunnerManual}

Commands == {"generate", "transform", "classify", "run"}

\* truth value of an option: None and the empty string are false
Truthy(v) == v # None /\ v # ""

\* at most this many --ref-data options are given to run
MaxRefData == 2

InDataValues == {None, "", "in.csv"}

OutputValues == {None, "", "out"}

ModelPathValues == {None, "", "model.tar.gz"}

\* the --ref-data options of run: a tuple of n sources
RefDataTuple(n) == [i \in 1..n |-> "ref" \o ToString(i) \o ".csv"]

\* ref_data_factory: a RefData whose ref_dict has one entry per source, in order
ref_data_factory(t) ==
    [none |-> FALSE, ref_dict |-> [i \in 1..Len(t) |-> [key |-> ToString(i - 1), src |-> t[i]]]]

\* a ref_data argument that is None (generate, transform, classify pass none)
NoRefData == [none |-> TRUE, ref_dict |-> <<>>]

\* RefData.is_empty
is_empty(rd) == rd.ref_dict = <<>>

\* sc.project.upload_artifact: the key of the uploaded artifact
upload_artifact(path) == "gretel_" \o path

NoContainer ==
    [state |-> "none", debug |-> FALSE, output_dir |-> None, input_data |-> None,
     model |-> None, ref_data |-> NoRefData]

CliIdle ==
    /\ args = [cmd |-> "none", runner |-> RunnerCloud, runner_is_enum_value |-> TRUE,
               is_cloud_model |-> TRUE, model_path |-> None, output |-> None,
               in_data |-> None, ref_data |-> <<>>, debug |-> FALSE]
    /\ cpc = "idle"
    /\ runner = RunnerCloud
    /\ error = "none"
    /\ data_source = None
    /\ ref_data = NoRefData
    /\ config_ref_data = NoRefData
    /\ calls = <<>>
    /\ uploads = <<>>
    /\ submits = <<>>
    /\ cleanup = <<>>
    /\ container = NoContainer
    /\ rh_status = "created"
    /\ exit_code = 0

\* a command is invoked with the options click parsed
CliInit ==
    /\ args \in [cmd : Commands, runner : RunnerMode, runner_is_enum_value : BOOLEAN,
                 is_cloud_model : BOOLEAN, model_path : ModelPathValues,
                 output : OutputValues, in_data : InDataValues,
                 ref_data : {RefDataTuple(n) : n \in 0..MaxRefData}, debug : BOOLEAN]
    /\ (args.cmd # "run" => args.ref_data = <<>>)
    /\ cpc = "check_runner"
    /\ runner = args.runner
    /\ error = "none"
    /\ data_source = None
    /\ ref_data = NoRefData
    /\ config_ref_data = NoRefData
    /\ calls = <<>>
    /\ uploads = <<>>
    /\ submits = <<>>
    /\ cleanup = <<>>
    /\ container = NoContainer
    /\ rh_status = "created"
    /\ exit_code = 0

(***************************************************************************)
(* _validate_params, _check_model_and_runner                               *)
(***************************************************************************)
_validate_params_output_rule_first(is_cloud_model, r, output, model_path) ==
    IF r = RunnerCloud /\ Truthy(model_path) THEN "--model-path"
    ELSE IF r = RunnerLocal /\ ~Truthy(output) THEN "--output"
    ELSE IF ~is_cloud_model /\ r = RunnerLocal /\ ~Truthy(model_path) THEN "--model-path"
    ELSE IF r = RunnerLocal /\ is_cloud_model /\ Truthy(model_path) THEN "--model-path"
    ELSE IF r = RunnerManual /\ (Truthy(output) \/ Truthy(model_path)) THEN "--runner"
    ELSE "ok"

_validate_params_no_output_rule(is_cloud_model, r, output, model_path) ==
    IF r = RunnerCloud /\ Truthy(model_path) THEN "--model-path"
    ELSE IF ~is_cloud_model /\ r = RunnerLocal /\ ~Truthy(model_path) THEN "--model-path"
    ELSE IF r = RunnerLocal /\ is_cloud_model /\ Truthy(model_path) THEN "--model-path"
    ELSE IF r = RunnerManual /\ (Truthy(output) \/ Truthy(model_path)) THEN "--runner"
    ELSE "ok"

_validate_params_no_cloud_rule(is_cloud_model, r, output, model_path) ==
    IF ~is_cloud_model /\ r = RunnerLocal /\ ~Truthy(model_path) THEN "--model-path"
    ELSE IF r = RunnerLocal /\ ~Truthy(output) THEN "--output"
    ELSE IF r = RunnerLocal /\ is_cloud_model /\ Truthy(model_path) THEN "--model-path"
    ELSE IF r = RunnerManual /\ (Truthy(output) \/ Truthy(model_path)) THEN "--runner"
    ELSE "ok"

\* records.py:65-95  the option named by the BadOptionUsage raised, or "ok"
_validate_params(is_cloud_model, r, output, model_path) ==
    IF r = RunnerCloud /\ Truthy(model_path) THEN "--model-path"
    ELSE IF ~is_cloud_model /\ r = RunnerLocal /\ ~Truthy(model_path) THEN "--model-path"
    ELSE IF r = RunnerLocal /\ ~Truthy(output) THEN "--output"
    ELSE IF r = RunnerLocal /\ is_cloud_model /\ Truthy(model_path) THEN "--model-path"
    ELSE IF r = RunnerManual /\ (Truthy(output) \/ Truthy(model_path)) THEN "--runner"
    ELSE "ok"

\* records.py:98-108  "runner is RunnerMode.CLOUD.value" compares object
\* identity: it holds when the string handed over is the enum's own value
_check_model_and_runner(is_cloud_model, r, is_enum_value) ==
    IF ~is_cloud_model /\ r = RunnerCloud /\ is_enum_value THEN RunnerLocal ELSE r

AfterValidationErrorIgnored(flag) == "data_source"

\* records.py:282  a BadOptionUsage leaves the command, otherwise it goes on
AfterValidation(flag) == IF flag = "ok" THEN "data_source" ELSE "rejected"

(***************************************************************************)
(* _configure_data_source, _configure_ref_data                             *)
(***************************************************************************)
_configure_data_source_local_passthrough(in_data, r) ==
    IF in_data = None THEN [ret |-> None, uploaded |-> <<>>]
    ELSE IF r = RunnerCloud THEN [ret |-> upload_artifact(in_data), uploaded |-> <<in_data>>]
    ELSE [ret |-> in_data, uploaded |-> <<>>]

\* records.py:111-135  the value returned and the paths handed to upload_artifact
_configure_data_source(in_data, r) ==
    IF in_data = None THEN [ret |-> None, uploaded |-> <<>>]
    ELSE IF r = RunnerManual THEN [ret |-> in_data, uploaded |-> <<>>]
    ELSE IF r = RunnerCloud THEN [ret |-> upload_artifact(in_data), uploaded |-> <<in_data>>]
    ELSE [ret |-> LOCAL_SENTINEL, uploaded |-> <<>>]

_configure_ref_data_paths_kept(rd, r) ==
    IF ~is_empty(rd) /\ r = RunnerCloud
    THEN [ret |-> [none |-> FALSE,
                   ref_dict |-> [i \in 1..Len(rd.ref_dict) |->
                                   [key |-> rd.ref_dict[i].key,
                                    src |-> upload_artifact(rd.ref_dict[i].src)]]],
          arg_after |-> rd,
          uploaded |-> [i \in 1..Len(rd.ref_dict) |-> rd.ref_dict[i].src]]
    ELSE [ret |-> rd, arg_after |-> rd, uploaded |-> <<>>]

\* records.py:138-153  the RefData returned, the state in which the RefData
\* passed in is left, and the paths handed to upload_artifact
_configure_ref_data(rd, r) ==
    IF ~is_empty(rd) /\ r = RunnerManual
    THEN [ret |-> rd, arg_after |-> rd, uploaded |-> <<>>]
    ELSE IF ~is_empty(rd) /\ r = RunnerCloud
    THEN [ret |-> [none |-> FALSE,
                   ref_dict |-> [i \in 1..Len(rd.ref_dict) |->
                                   [key |-> rd.ref_dict[i].key,
                                    src |-> upload_artifact(rd.ref_dict[i].src)]]],
          arg_after |-> rd,
          uploaded |-> [i \in 1..Len(rd.ref_dict) |-> rd.ref_dict[i].src]]
    ELSE LET swapped == [none |-> FALSE,
                         ref_dict |-> [i \in 1..Len(rd.ref_dict) |->
                                         [key |-> rd.ref_dict[i].key, src |-> LOCAL_SENTINEL]]]
         IN [ret |-> swapped, arg_after |-> swapped, uploaded |-> <<>>]

\* copy.deepcopy: a RefData of its own with the same entries
deepcopy(rd) == [none |-> rd.none, ref_dict |-> rd.ref_dict]

RefDataSharedWithCallee(rd, res) == res.arg_after

\* records.py:424  _configure_ref_data is handed a deep copy, so whatever it
\* does to its argument the caller's RefData is as it was
RefDataLeftToCaller(rd, res) == rd

AfterUploadFailureRetried(step) == step

\* records.py:131, 145  an exception of upload_artifact is not caught: it
\* leaves the command
AfterUploadFailure(step) == "raised"

(***************************************************************************)
(* generate, transform, classify, run                                      *)
(***************************************************************************)
inputVars == <<args, pc, refresh_attempts, status, history, sleeps, remote, ended_at,
              rpc, report, runs, read>>

\* records.py:281, 321, 356, 410  runner = _check_model_and_runner(sc, runner)
CheckRunner ==
    /\ cpc = "check_runner"
    /\ runner' = _check_model_and_runner(args.is_cloud_model, runner, args.runner_is_enum_value)
    /\ cpc' = "validate"
    /\ UNCHANGED <<error, data_source, ref_data, config_ref_data, calls, uploads,
                   submits, cleanup, container, rh_status, exit_code>>
    /\ UNCHANGED inputVars

\* records.py:282, 322, 357, 411  _validate_params(sc, runner, output, model_path, in_data)
Validate ==
    /\ cpc = "validate"
    /\ LET flag == _validate_params(args.is_cloud_model, runner, args.output, args.model_path)
       IN /\ error' = IF flag = "ok" THEN error ELSE flag
          /\ cpc' = AfterValidation(flag)
    /\ UNCHANGED <<runner, data_source, ref_data, config_ref_data, calls, uploads,
                   submits, cleanup, container, rh_status, exit_code>>
    /\ UNCHANGED inputVars

\* records.py:416-418  run resolves the data source only for a true in_data
DataSourceResolved ==
    IF args.cmd = "run" /\ ~Truthy(args.in_data)
    THEN [ret |-> None, uploaded |-> <<>>]
    ELSE _configure_data_source(args.in_data, runner)

AfterDataSource == IF args.cmd = "run" THEN "ref_data" ELSE "submit"

\* records.py:284, 324, 359, 416-418  the data source is resolved
ConfigureDataSource ==
    /\ cpc = "data_source"
    /\ LET res == DataSourceResolved
       IN /\ data_source' = res.ret
          /\ uploads' = uploads \o res.uploaded
          /\ calls' = calls \o [i \in 1..Len(res.uploaded) |-> "upload_artifact"]
    /\ cpc' = AfterDataSource
    /\ UNCHANGED <<runner, error, ref_data, config_ref_data,
                   submits, cleanup, container, rh_status, exit_code>>
    /\ UNCHANGED inputVars

\* records.py:131  upload_artifact raises and the command ends
ConfigureDataSourceUploadFails ==
    /\ cpc = "data_source"
    /\ LET res == DataSourceResolved
       IN /\ res.uploaded # <<>>
          /\ uploads' = uploads \o res.uploaded
          /\ calls' = calls \o [i \in 1..Len(res.uploaded) |-> "upload_artifact"]
    /\ error' = "upload_artifact(in_data)"
    /\ cpc' = AfterUploadFailure("data_source")
    /\ UNCHANGED <<runner, data_source, ref_data, config_ref_data,
                   submits, cleanup, container, rh_status, exit_code>>
    /\ UNCHANGED inputVars

\* records.py:423-424  run: ref_data = ref_data_factory(ref_data);
\* config_ref_data = _configure_ref_data(sc, deepcopy(ref_data), runner)
ConfigureRefData ==
    /\ cpc = "ref_data"
    /\ LET rd == ref_data_factory(args.ref_data)
           res == _configure_ref_data(deepcopy(rd), runner)
       IN /\ ref_data' = RefDataLeftToCaller(rd, res)
          /\ config_ref_data' = res.ret
          /\ uploads' = uploads \o res.uploaded
          /\ calls' = calls \o [i \in 1..Len(res.uploaded) |-> "upload_artifact"]
    /\ cpc' = "submit"
    /\ UNCHANGED <<runner, error, data_source,
                   submits, cleanup, container, rh_status, exit_code>>
    /\ UNCHANGED inputVars

\* records.py:145  the j-th upload_artifact of the ref data raises
ConfigureRefDataUploadFails ==
    /\ cpc = "ref_data"
    /\ LET rd == ref_data_factory(args.ref_data)
           res == _configure_ref_data(deepcopy(rd), runner)
       IN /\ ref_data' = RefDataLeftToCaller(rd, res)
          /\ \E j \in 1..Len(res.uploaded) :
                /\ uploads' = uploads \o SubSeq(res.uploaded, 1, j)
                /\ calls' = calls \o [i \in 1..j |-> "upload_artifact"]
    /\ error' = "upload_artifact(ref_data)"
    /\ cpc' = AfterUploadFailure("ref_data")
    /\ UNCHANGED <<runner, data_source, config_ref_data,
                   submits, cleanup, container, rh_status, exit_code>>
    /\ UNCHANGED inputVars

(***************************************************************************)
(* create_and_run_record_handler                                           *)
(***************************************************************************)
\* records.py:167-168, 291-301, 430-442  the ref_data and config_ref_data
\* arguments: run passes both, the other commands pass neither
RefDataArgument == IF args.cmd = "run" THEN ref_data ELSE NoRefData

\* records.py:178-179  a missing config_ref_data becomes an empty RefData
ConfigRefDataArgument ==
    IF args.cmd = "run" THEN config_ref_data ELSE ref_data_factory(<<>>)

SubmitArguments ==
    [runner_mode |-> runner, data_source |-> data_source, ref_data |-> ConfigRefDataArgument]

\* records.py:176-188  the record handler is created by record_handler._submit
Submit ==
    /\ cpc = "submit"
    /\ config_ref_data' = ConfigRefDataArgument
    /\ submits' = Append(submits, SubmitArguments)
    /\ calls' = Append(calls, "_submit")
    /\ cpc' = "register_cancel"
    /\ UNCHANGED <<runner, error, data_source, ref_data, uploads,
                   cleanup, container, rh_status, exit_code>>
    /\ UNCHANGED inputVars

\* records.py:181  record_handler._submit raises
SubmitFails ==
    /\ cpc = "submit"
    /\ config_ref_data' = ConfigRefDataArgument
    /\ calls' = Append(calls, "_submit")
    /\ error' = "_submit"
    /\ cpc' = "raised"
    /\ UNCHANGED <<runner, data_source, ref_data, uploads, submits,
                   cleanup, container, rh_status, exit_code>>
    /\ UNCHANGED inputVars

RegistryAfterSubmitUnchanged(registry) == registry

\* records.py:189  sc.register_cleanup(lambda: record_handler.cancel())
RegistryAfterSubmit(registry) == Append(registry, "cancel")

\* records.py:189-202  the cancel callback is registered, the record handler printed
RegisterCancel ==
    /\ cpc = "register_cancel"
    /\ cleanup' = RegistryAfterSubmit(cleanup)
    /\ calls' = calls \o <<"register_cleanup", "print">>
    /\ cpc' = IF runner = RunnerLocal THEN "container" ELSE "poll"
    /\ UNCHANGED <<runner, error, data_source, ref_data, config_ref_data, uploads,
                   submits, container, rh_status, exit_code>>
    /\ UNCHANGED inputVars

\* records.py:206-217  the ContainerRun as configured before it is started
ConfiguredContainer ==
    [state |-> "created",
     debug |-> args.debug,
     output_dir |-> IF Truthy(args.output) THEN args.output ELSE None,
     input_data |-> IF Truthy(args.in_data) THEN args.in_data ELSE None,
     model |-> IF Truthy(args.model_path) THEN args.model_path ELSE None,
     ref_data |-> IF RefDataArgument.none THEN NoRefData ELSE RefDataArgument]

\* records.py:205-217  ContainerRun.from_job and the configure calls
ConfigureContainer ==
    /\ cpc = "container"
    /\ container' = ConfiguredContainer
    /\ calls' = Append(calls, "from_job")
    /\ cpc' = "start"
    /\ UNCHANGED <<runner, error, data_source, ref_data, config_ref_data, uploads,
                   submits, cleanup, rh_status, exit_code>>
    /\ UNCHANGED inputVars

\* records.py:207-217  enable_debug or a configure call raises
ConfigureContainerFails ==
    /\ cpc = "container"
    /\ container' = ConfiguredContainer
    /\ calls' = Append(calls, "from_job")
    /\ error' = "configure"
    /\ cpc' = "raised"
    /\ UNCHANGED <<runner, data_source, ref_data, config_ref_data, uploads,
                   submits, cleanup, rh_status, exit_code>>
    /\ UNCHANGED inputVars

\* records.py:218-219  run.start() and the registration of graceful_shutdown
StartContainer ==
    /\ cpc = "start"
    /\ container' = [container EXCEPT !.state = "started"]
    /\ cleanup' = Append(cleanup, "graceful_shutdown")
    /\ calls' = calls \o <<"start", "register_cleanup">>
    /\ cpc' = "poll"
    /\ UNCHANGED <<runner, error, data_source, ref_data, config_ref_data, uploads,
                   submits, rh_status, exit_code>>
    /\ UNCHANGED inputVars

\* records.py:218  run.start() raises
StartContainerFails ==
    /\ cpc = "start"
    /\ calls' = Append(calls, "start")
    /\ error' = "start"
    /\ cpc' = "raised"
    /\ UNCHANGED <<runner, data_source, ref_data, config_ref_data, uploads,
                   submits, cleanup, container, rh_status, exit_code>>
    /\ UNCHANGED inputVars

\* records.py:222-224  poll_and_print returns; the record handler holds the
\* status last read
Poll ==
    /\ cpc = "poll"
    /\ \E s \in Status : rh_status' = s
    /\ calls' = Append(calls, "poll_and_print")
    /\ cpc' = "materialize"
    /\ UNCHANGED <<runner, error, data_source, ref_data, config_ref_data, uploads,
                   submits, cleanup, container, exit_code>>
    /\ UNCHANGED inputVars

\* records.py:222  poll_and_print raises
PollFails ==
    /\ cpc = "poll"
    /\ calls' = Append(calls, "poll_and_print")
    /\ error' = "poll_and_print"
    /\ cpc' = "raised"
    /\ UNCHANGED <<runner, data_source, ref_data, config_ref_data, uploads,
                   submits, cleanup, container, rh_status, exit_code>>
    /\ UNCHANGED inputVars

MaterializeCallsDownloadAnyRunner ==
    (IF Truthy(args.output) THEN <<"download_artifacts">> ELSE <<>>)
    \o (IF Truthy(args.output) /\ container.state # "none" THEN <<"extract_output_dir">> ELSE <<>>)

\* records.py:226-231  the artifact calls made once polling is over
MaterializeCalls ==
    (IF Truthy(args.output) /\ runner = RunnerCloud THEN <<"download_artifacts">> ELSE <<>>)
    \o (IF Truthy(args.output) /\ container.state # "none" THEN <<"extract_output_dir">> ELSE <<>>)

\* records.py:226-231  download from the cloud, extraction from the container
Materialize ==
    /\ cpc = "materialize"
    /\ calls' = calls \o MaterializeCalls
    /\ cpc' = "finish"
    /\ UNCHANGED <<runner, error, data_source, ref_data, config_ref_data, uploads,
                   submits, cleanup, container, rh_status, exit_code>>
    /\ UNCHANGED inputVars

\* records.py:227, 231  the j-th artifact call raises
MaterializeFails ==
    /\ cpc = "materialize"
    /\ \E j \in 1..Len(MaterializeCalls) :
          /\ calls' = calls \o SubSeq(MaterializeCalls, 1, j)
          /\ error' = MaterializeCalls[j]
    /\ cpc' = "raised"
    /\ UNCHANGED <<runner, data_source, ref_data, config_ref_data, uploads,
                   submits, cleanup, container, rh_status, exit_code>>
    /\ UNCHANGED inputVars

\* records.py:233-253  done on COMPLETED, sc.exit(1) otherwise
Finish ==
    /\ cpc = "finish"
    /\ exit_code' = IF rh_status = COMPLETED THEN 0 ELSE 1
    /\ cpc' = IF rh_status = COMPLETED THEN "done" ELSE "exited"
    /\ UNCHANGED <<runner, error, data_source, ref_data, config_ref_data, calls, uploads,
                   submits, cleanup, container, rh_status>>
    /\ UNCHANGED inputVars

NextCli ==
    \/ CheckRunner
    \/ Validate
    \/ ConfigureDataSource
    \/ ConfigureDataSourceUploadFails
    \/ ConfigureRefData
    \/ ConfigureRefDataUploadFails
    \/ Submit
    \/ SubmitFails
    \/ RegisterCancel
    \/ ConfigureContainer
    \/ ConfigureContainerFails
    \/ StartContainer
    \/ StartContainerFails
    \/ Poll
    \/ PollFails
    \/ Materialize
    \/ MaterializeFails
    \/ Finish

(***************************************************************************)
(* evaluation/reports.py: BaseReport.run and the accessors                 *)
(***************************************************************************)
\* run() is called at most this many times on one report
MaxRuns == 3

ReportIdle ==
    /\ rpc = "idle"
    /\ report = [runner_mode |-> RunnerCloud, project |-> TRUE, _model_run |-> FALSE,
                 _report_dict |-> 0, _report_html |-> 0]
    /\ runs = [started |-> 0, returned |-> 0, result |-> "none", calls |-> <<>>]
    /\ read = [accessor |-> "none", result |-> "none", value |-> 0, successes |-> 0]

\* reports.py:63-79  a report as constructed: _model_run is False and neither
\* _report_dict nor _report_html is assigned (0); contents are named by the
\* number of the run that produced them
ReportInit ==
    /\ rpc = "ready"
    /\ report \in [runner_mode : RunnerMode, project : BOOLEAN, _model_run : {FALSE},
                   _report_dict : {0}, _report_html : {0}]
    /\ runs = [started |-> 0, returned |-> 0, result |-> "none", calls |-> <<>>]
    /\ read = [accessor |-> "none", result |-> "none", value |-> 0, successes |-> 0]

otherVars == <<pc, refresh_attempts, status, history, sleeps, remote, ended_at,
               args, cpc, runner, error, data_source, ref_data, config_ref_data,
               calls, uploads, submits, cleanup, container, rh_status, exit_code>>

\* reports.py:144-149  _run: a temporary project unless one was given
AfterRunCalled(project) == IF project THEN "create_model_obj" ELSE "tmp_project"

\* reports.py:81-85  _run_model: CLOUD and LOCAL have a branch, any other
\* runner mode falls through
_run_model(mode) ==
    IF mode = RunnerCloud THEN "submit_cloud"
    ELSE IF mode = RunnerLocal THEN "submit_docker_local"
    ELSE "_model_run"

\* the steps of run() that call a collaborator and may raise
RaisingSteps ==
    {"tmp_project", "create_model_obj", "submit_cloud", "_await_completion",
     "submit_docker_local", "read_report_dict", "read_report_html"}

\* reports.py:152-153  run() is called
RunCalled ==
    /\ rpc = "ready"
    /\ runs.started < MaxRuns
    /\ runs' = [runs EXCEPT !.started = @ + 1, !.result = "running", !.calls = <<>>]
    /\ rpc' = AfterRunCalled(report.project)
    /\ UNCHANGED <<report, read>>
    /\ UNCHANGED otherVars

\* reports.py:146  with tmp_project() as proj
TmpProject ==
    /\ rpc = "tmp_project"
    /\ runs' = [runs EXCEPT !.calls = Append(@, "tmp_project")]
    /\ rpc' = "create_model_obj"
    /\ UNCHANGED <<report, read>>
    /\ UNCHANGED otherVars

\* reports.py:136-142  _run_in_project: create_model_obj, then _run_model
CreateModelObj ==
    /\ rpc = "create_model_obj"
    /\ runs' = [runs EXCEPT !.calls = Append(@, "create_model_obj")]
    /\ rpc' = _run_model(report.runner_mode)
    /\ UNCHANGED <<report, read>>
    /\ UNCHANGED otherVars

\* reports.py:118  job = model.submit_cloud()
SubmitCloud ==
    /\ rpc = "submit_cloud"
    /\ runs' = [runs EXCEPT !.calls = Append(@, "submit_cloud")]
    /\ rpc' = "_await_completion"
    /\ UNCHANGED <<report, read>>
    /\ UNCHANGED otherVars

\* reports.py:119  _await_completion returns normally
AwaitCompletionReturns ==
    /\ rpc = "_await_completion"
    /\ runs' = [runs EXCEPT !.calls = Append(@, "_await_completion")]
    /\ rpc' = "read_report_dict"
    /\ UNCHANGED <<report, read>>
    /\ UNCHANGED otherVars

\* reports.py:129  submit_docker_local(model, output_dir=self.output_dir)
SubmitDockerLocal ==
    /\ rpc = "submit_docker_local"
    /\ runs' = [runs EXCEPT !.calls = Append(@, "submit_docker_local")]
    /\ rpc' = "read_report_dict"
    /\ UNCHANGED <<report, read>>
    /\ UNCHANGED otherVars

\* reports.py:121-123, 130-132  the report JSON is read and assigned
ReadReportDict ==
    /\ rpc = "read_report_dict"
    /\ report' = [report EXCEPT !._report_dict = runs.started]
    /\ runs' = [runs EXCEPT !.calls = Append(@, "read_report_dict")]
    /\ rpc' = "read_report_html"
    /\ UNCHANGED read
    /\ UNCHANGED otherVars

\* reports.py:124-126, 133-134  the report HTML is read and assigned
ReadReportHtml ==
    /\ rpc = "read_report_html"
    /\ report' = [report EXCEPT !._report_html = runs.started]
    /\ runs' = [runs EXCEPT !.calls = Append(@, "read_report_html")]
    /\ rpc' = "_model_run"
    /\ UNCHANGED read
    /\ UNCHANGED otherVars

\* a collaborator raises and the exception leaves run()
RunStepRaises ==
    /\ rpc \in RaisingSteps
    /\ runs' = [runs EXCEPT !.calls = Append(@, rpc), !.result = "raised"]
    /\ rpc' = "ready"
    /\ UNCHANGED <<report, read>>
    /\ UNCHANGED otherVars

\* reports.py:150  self._model_run = True, and run() returns
SetModelRun ==
    /\ rpc = "_model_run"
    /\ report' = [report EXCEPT !._model_run = TRUE]
    /\ runs' = [runs EXCEPT !.returned = @ + 1, !.result = "returned"]
    /\ rpc' = "ready"
    /\ UNCHANGED read
    /\ UNCHANGED otherVars

_check_model_run_passes_once_dict_assigned(r) ==
    IF r._report_dict = 0 THEN "ModelRunException" ELSE "ok"

\* reports.py:155-157  _check_model_run
_check_model_run(r) == IF ~r._model_run THEN "ModelRunException" ELSE "ok"

\* reports.py:159-169  what reading an accessor gives: the exception of
\* _check_model_run, an AttributeError for an attribute never assigned, or
\* the content
Accessor(r, content) ==
    IF _check_model_run(r) # "ok" THEN [result |-> _check_model_run(r), value |-> 0]
    ELSE IF content = 0 THEN [result |-> "AttributeError", value |-> 0]
    ELSE [result |-> "value", value |-> content]

\* reports.py:159-163  as_dict is read
ReadAsDict ==
    /\ rpc = "ready"
    /\ LET res == Accessor(report, report._report_dict)
       IN read' = [accessor |-> "as_dict", result |-> res.result, value |-> res.value,
                   successes |-> runs.returned]
    /\ UNCHANGED <<rpc, report, runs>>
    /\ UNCHANGED otherVars

\* reports.py:165-169  as_html is read
ReadAsHtml ==
    /\ rpc = "ready"
    /\ LET res == Accessor(report, report._report_html)
       IN read' = [accessor |-> "as_html", result |-> res.result, value |-> res.value,
                   successes |-> runs.returned]
    /\ UNCHANGED <<rpc, report, runs>>
    /\ UNCHANGED otherVars

NextReport ==
    \/ RunCalled
    \/ TmpProject
    \/ CreateModelObj
    \/ SubmitCloud
    \/ AwaitCompletionReturns
    \/ SubmitDockerLocal
    \/ ReadReportDict
    \/ ReadReportHtml
    \/ RunStepRaises
    \/ SetModelRun
    \/ ReadAsDict
    \/ ReadAsHtml

InitPoller == PollerInit /\ CliIdle /\ ReportIdle

SpecPoller == InitPoller /\ [][NextPoller]_vars

InitCli == CliInit /\ PollerIdle /\ ReportIdle

SpecCli == InitCli /\ [][NextCli]_vars

InitReport == ReportInit /\ PollerIdle /\ CliIdle

SpecReport == InitReport /\ [][NextReport]_vars

\* a command of cli/records.py or a report of evaluation/reports.py
InitJobs == InitCli \/ InitReport

NextJobs == NextCli \/ NextReport

SpecJobs == InitJobs /\ [][NextJobs]_vars

(***************************************************************************)
(* Helpers for the properties of the poller                                *)
(***************************************************************************)
AllFail(h) == \A i \in 1..Len(h) : h[i] = FAIL

IsPrefix(h, s) == Len(h) <= Len(s) /\ \A i \in 1..Len(h) : h[i] = s[i]

RECURSIVE TrailingFails(_)
TrailingFails(h) ==
    IF h = <<>> THEN 0
    ELSE IF h[Len(h)] = FAIL THEN 1 + TrailingFails(SubSeq(h, 1, Len(h) - 1))
    ELSE 0

PollerEnded == pc \in {"returned", "unsuccessful", "lost_contact"}

\* C1: when every refresh so far failed and the status held by the job is not
\* an end state, lost contact is raised after exactly 5 attempts: never with
\* fewer, and after the 5th failure no sleep or refresh follows.
C1_LostContactAfterExactlyFive ==
    (AllFail(history) /\ status \notin END_STATES) =>
        /\ Len(history) <= RefreshLimit
        /\ (pc = "lost_contact" => Len(history) = RefreshLimit)
        /\ (Len(history) = RefreshLimit => pc \in {"inspect", "check", "lost_contact"})
        /\ pc \notin {"returned", "unsuccessful"}

C1_Witness ==
    /\ pc = "lost_contact"
    /\ AllFail(history)
    /\ Len(history) = 5
    /\ status \notin END_STATES

\* C2: the counter is the number of failures since the last successful refresh,
\* and lost contact is raised only when the 5 most recent refreshes all failed.
C2_CounterIsConsecutiveFailures ==
    /\ refresh_attempts = TrailingFails(history)
    /\ (pc = "lost_contact" =>
          /\ Len(history) >= RefreshLimit
          /\ \A i \in (Len(history) - RefreshLimit + 1)..Len(history) : history[i] = FAIL)

C2_Witness ==
    /\ pc = "lost_contact"
    /\ Len(history) = 8
    /\ history[1] = FAIL
    /\ history[2] = FAIL
    /\ history[3] \in Status

S3 == <<FAIL, FAIL, ACTIVE, FAIL, FAIL, FAIL, FAIL, FAIL>>

\* C3 as stated: on [fail, fail, success(RUNNING), fail x 5] lost contact is
\* raised after 7 refresh attempts.
C3_LostContactAfterSeven ==
    IsPrefix(history, S3) =>
        /\ (pc = "lost_contact" => Len(history) = 7)
        /\ Len(history) <= 7

\* C3 amended: on [fail, fail, success(RUNNING), fail x 5] lost contact is
\* raised only after the fifth failure following the reset, which is the 8th
\* refresh attempt (not the 5th, not the 7th), and no 9th attempt is made.
C3_LostContactAfterEight ==
    IsPrefix(history, S3) =>
        /\ (pc = "lost_contact" => Len(history) = 8)
        /\ (Len(history) = 8 => pc \in {"inspect", "check", "lost_contact"})
        /\ (Len(history) >= 3 => ~PollerEnded \/ Len(history) = 8)

C3_Witness ==
    /\ history = S3
    /\ pc = "lost_contact"
    /\ sleeps = 8

\* C4: a successful refresh that reads COMPLETED is the last refresh and the
\* poller returns normally there; [RUNNING, RUNNING, COMPLETED] returns after
\* exactly 3 refreshes.
C4_ReturnsAtFirstCompleted ==
    /\ \A i \in 1..Len(history) :
          history[i] = COMPLETED =>
              /\ i = Len(history)
              /\ pc \in {"inspect", "returned"}
              /\ status = COMPLETED
    /\ (IsPrefix(history, <<ACTIVE, ACTIVE, COMPLETED>>) /\ PollerEnded =>
          pc = "returned" /\ Len(history) = 3)

C4_Witness ==
    /\ history = <<ACTIVE, ACTIVE, COMPLETED>>
    /\ pc = "returned"
    /\ sleeps = 3

\* C5: a successful refresh that reads ERROR, CANCELLED or LOST is the last
\* refresh and the poller raises "finished unsuccessfully" there;
\* [RUNNING, ERROR] raises after exactly 2 refreshes; the poller never returns
\* normally while the status is an end state other than COMPLETED.
C5_RaisesAtFirstUnsuccessfulEnd ==
    /\ \A i \in 1..Len(history) :
          history[i] \in END_STATES \ {COMPLETED} =>
              /\ i = Len(history)
              /\ pc \in {"inspect", "unsuccessful"}
              /\ status = history[i]
    /\ (IsPrefix(history, <<ACTIVE, "error">>) /\ PollerEnded =>
          pc = "unsuccessful" /\ Len(history) = 2)
    /\ (pc = "returned" => status \notin END_STATES \ {COMPLETED})

C5_Witness ==
    /\ history = <<ACTIVE, "error">>
    /\ pc = "unsuccessful"
    /\ sleeps = 2

\* C6: the poller neither returns normally nor raises "finished
\* unsuccessfully" in an iteration whose refresh failed.
C6_StatusInspectedOnlyAfterSuccess ==
    (pc \in {"returned", "unsuccessful"}) =>
        (history # <<>> /\ history[Len(history)] # FAIL)

(***************************************************************************)
(* Properties of the commands                                              *)
(***************************************************************************)
Validated == cpc \notin {"idle", "check_runner", "validate"}

Rejected == cpc = "rejected"

\* the combinations of (runner, cloud-native model, output set, model path set)
\* that none of the five rules lists
AcceptedCombinations ==
    {<<RunnerCloud, c, o, FALSE>> : c \in BOOLEAN, o \in BOOLEAN}
    \cup {<<RunnerLocal, TRUE, TRUE, FALSE>>, <<RunnerLocal, FALSE, TRUE, TRUE>>}
    \cup {<<RunnerManual, c, FALSE, FALSE>> : c \in BOOLEAN}

\* the flag of the first of the five rules that the combination violates
FirstRuleViolated(r, c, o, m) ==
    CASE r = RunnerCloud /\ m -> "--model-path"
      [] r = RunnerLocal /\ ~c /\ ~m -> "--model-path"
      [] r = RunnerLocal /\ ~(~c /\ ~m) /\ ~o -> "--output"
      [] r = RunnerLocal /\ ~(~c /\ ~m) /\ o /\ c /\ m -> "--model-path"
      [] r = RunnerManual /\ (o \/ m) -> "--runner"
      [] OTHER -> "none"

\* C7: _validate_params accepts exactly the combinations no rule lists and
\* rejects every other one with the flag of the first rule violated.
C7_ValidatorAcceptsExactlyUnlisted ==
    Validated =>
        LET combo == <<runner, args.is_cloud_model, Truthy(args.output), Truthy(args.model_path)>>
        IN /\ (~Rejected <=> combo \in AcceptedCombinations)
           /\ (Rejected =>
                 error = FirstRuleViolated(runner, args.is_cloud_model,
                                           Truthy(args.output), Truthy(args.model_path)))
           /\ (~Rejected => error \notin {"--model-path", "--output", "--runner"})

C7_Witness ==
    /\ Rejected
    /\ runner = RunnerLocal
    /\ ~args.is_cloud_model
    /\ ~Truthy(args.model_path)
    /\ ~Truthy(args.output)
    /\ error = "--model-path"

NoNetworkCall == calls = <<>> /\ uploads = <<>> /\ submits = <<>>

\* C8 as stated: runner LOCAL, a model that is not cloud-native and no output
\* directory are rejected with the error naming --output, with or without a
\* model path, before any network call.
C8_LocalWithoutOutputNamesOutput ==
    (Validated /\ args.runner = RunnerLocal /\ ~args.is_cloud_model /\ ~Truthy(args.output)) =>
        /\ Rejected
        /\ error = "--output"
        /\ NoNetworkCall

\* C8 amended: runner LOCAL, a model that is not cloud-native and no output
\* directory are rejected before any network call; the error names --output
\* when a model path was supplied and --model-path when none was.
C8_LocalWithoutOutputRejected ==
    (Validated /\ args.runner = RunnerLocal /\ ~args.is_cloud_model /\ ~Truthy(args.output)) =>
        /\ Rejected
        /\ error = (IF Truthy(args.model_path) THEN "--output" ELSE "--model-path")
        /\ NoNetworkCall

C8_Witness ==
    /\ Rejected
    /\ args.runner = RunnerLocal
    /\ ~args.is_cloud_model
    /\ ~Truthy(args.output)
    /\ Truthy(args.model_path)
    /\ error = "--output"

\* C9: in every command, once the validator has rejected the flags there is no
\* upload, no record handler creation, no cleanup registration, no container
\* and no polling, then or later.
C9_RejectionHasNoSideEffects ==
    (error \in {"--model-path", "--output", "--runner"}) =>
        /\ calls = <<>>
        /\ uploads = <<>>
        /\ submits = <<>>
        /\ cleanup = <<>>
        /\ container = NoContainer
        /\ Rejected

C9_Witness ==
    /\ Rejected
    /\ args.cmd = "run"
    /\ runner = RunnerCloud
    /\ Truthy(args.model_path)
    /\ Truthy(args.in_data)
    /\ args.ref_data # <<>>
    /\ calls = <<>>

\* a call of _configure_data_source was made and has returned
DataSourceCallReturned ==
    /\ cpc \notin {"idle", "check_runner", "validate", "rejected", "data_source"}
    /\ error # "upload_artifact(in_data)"
    /\ ~(args.cmd = "run" /\ ~Truthy(args.in_data))

\* C10: _configure_data_source returns None for None (no upload), the source
\* itself under MANUAL (no upload), the result of exactly one upload under
\* CLOUD (neither the sentinel nor the source), and "__local__" under LOCAL
\* (no upload).
C10_DataSourceResolution ==
    DataSourceCallReturned =>
        LET data_uploads == SelectSeq(uploads, LAMBDA p : p = args.in_data)
        IN /\ (args.in_data = None => data_source = None /\ data_uploads = <<>>)
           /\ (args.in_data # None /\ runner = RunnerManual =>
                 data_source = args.in_data /\ data_uploads = <<>>)
           /\ (args.in_data # None /\ runner = RunnerCloud =>
                 /\ data_uploads = <<args.in_data>>
                 /\ data_source = upload_artifact(args.in_data)
                 /\ data_source # LOCAL_SENTINEL
                 /\ data_source # args.in_data)
           /\ (args.in_data # None /\ runner = RunnerLocal =>
                 /\ data_source = LOCAL_SENTINEL
                 /\ data_source # args.in_data
                 /\ data_uploads = <<>>)

C10_Witness ==
    /\ cpc = "done"
    /\ args.cmd = "generate"
    /\ runner = RunnerCloud
    /\ args.in_data = "in.csv"
    /\ data_source = "gretel_in.csv"
    /\ uploads = <<"in.csv">>
(***************************************************************************)
(* Properties of create_and_run_record_handler                             *)
(***************************************************************************)
Range(s) == {s[i] : i \in 1..Len(s)}

Count(s, x) == Cardinality({i \in 1..Len(s) : s[i] = x})

CommandEnded == cpc \in {"rejected", "raised", "exited", "done"}

\* poll_and_print was called and returned
Polled == "poll_and_print" \in Range(calls) /\ error # "poll_and_print"

\* C11: when the effective run mode is LOCAL, the data source handed to
\* _submit is None or "__local__" and every reference-data value handed to
\* _submit is "__local__".
C11_LocalSubmitCarriesNoPath ==
    \A i \in 1..Len(submits) :
        submits[i].runner_mode = RunnerLocal =>
            /\ submits[i].data_source \in {None, LOCAL_SENTINEL}
            /\ \A j \in 1..Len(submits[i].ref_data.ref_dict) :
                  submits[i].ref_data.ref_dict[j].src = LOCAL_SENTINEL

C11_Witness ==
    /\ args.cmd = "run"
    /\ runner = RunnerLocal
    /\ args.in_data = "in.csv"
    /\ Len(args.ref_data) = 2
    /\ Len(submits) = 1
    /\ submits[1].data_source = LOCAL_SENTINEL
    /\ Len(submits[1].ref_data.ref_dict) = 2

\* the steps of create_and_run_record_handler that follow the registration
StepsAfterRegistration ==
    {"print", "from_job", "start", "poll_and_print", "download_artifacts", "extract_output_dir"}

\* C12: once _submit has created the record handler, the cancel callback is
\* in the cleanup registry before printing, container configuration and start,
\* polling or materialization; every way out of the command after the
\* creation leaves the cancel callback registered.
C12_CancelRegisteredRightAfterSubmit ==
    /\ \A i \in 1..Len(calls) :
          calls[i] \in StepsAfterRegistration =>
              /\ \E k \in 1..(i - 1) :
                    /\ calls[k] = "register_cleanup"
                    /\ k > 1
                    /\ calls[k - 1] = "_submit"
              /\ cleanup # <<>>
              /\ cleanup[1] = "cancel"
    /\ (submits # <<>> /\ CommandEnded => cleanup # <<>> /\ cleanup[1] = "cancel")
    /\ (submits = <<>> => cleanup = <<>>)

C12_Witness ==
    /\ cpc = "raised"
    /\ error = "start"
    /\ Len(submits) = 1
    /\ cleanup = <<"cancel">>

\* C13: once a ContainerRun exists, the registry holds its graceful_shutdown
\* callback when the command ends, also when configuring or starting the
\* container failed.
C13_ShutdownRegisteredWheneverContainerCreated ==
    (container.state # "none" /\ CommandEnded) => "graceful_shutdown" \in Range(cleanup)

\* C14: when polling ends with a status other than COMPLETED, neither
\* download_artifacts nor extract_output_dir is called.
C14_NoMaterializationUnlessCompleted ==
    (Polled /\ rh_status # COMPLETED) =>
        /\ "download_artifacts" \notin Range(calls)
        /\ "extract_output_dir" \notin Range(calls)

\* C15: create_and_run_record_handler asks for exit code 1 if and only if the
\* status after polling is not COMPLETED.
C15_ExitOneIffNotCompleted ==
    (Polled /\ CommandEnded) => (exit_code = 1 <=> rh_status # COMPLETED)
(***************************************************************************)
(* Properties of the report                                                *)
(***************************************************************************)
\* C16: as long as no run() has returned normally, the report is in the
\* not-yet-run state, whatever runs have raised and whatever they assigned,
\* and reading as_dict or as_html raises the "must run first" exception.
C16_AccessorsNeedCompletedRun ==
    /\ (runs.returned = 0 => ~report._model_run)
    /\ (report._model_run => runs.returned > 0)
    /\ (read.accessor # "none" /\ read.successes = 0 => read.result = "ModelRunException")
    /\ (read.result = "value" => read.successes > 0)

C16_Witness ==
    /\ runs.started >= 1
    /\ runs.returned = 0
    /\ runs.result = "raised"
    /\ report._report_dict # 0
    /\ read.accessor = "as_dict"
    /\ read.result = "ModelRunException"

(***************************************************************************)
(* Properties of the commands and the report together                      *)
(***************************************************************************)
NoDuplicates(s) == \A i, j \in 1..Len(s) : s[i] = s[j] => i = j

UploadFailed == error \in {"upload_artifact(in_data)", "upload_artifact(ref_data)"}

\* C17: job submission, every artifact upload and every artifact download is
\* attempted at most once per invocation, its failure ends the invocation at
\* once, and after a failed upload no record handler is created.
C17_NoRetryOfSubmitUploadDownload ==
    /\ Count(calls, "_submit") <= 1
    /\ Count(calls, "download_artifacts") <= 1
    /\ Count(calls, "extract_output_dir") <= 1
    /\ NoDuplicates(uploads)
    /\ Count(runs.calls, "submit_cloud") <= 1
    /\ Count(runs.calls, "submit_docker_local") <= 1
    /\ Count(runs.calls, "read_report_dict") <= 1
    /\ Count(runs.calls, "read_report_html") <= 1
    /\ (error \in {"upload_artifact(in_data)", "upload_artifact(ref_data)", "_submit",
                   "download_artifacts"} =>
          /\ cpc = "raised"
          /\ calls # <<>>
          /\ calls[Len(calls)] = (IF UploadFailed THEN "upload_artifact" ELSE error))
    /\ (UploadFailed => submits = <<>> /\ "_submit" \notin Range(calls))
    /\ (error = "_submit" => submits = <<>>)
    /\ (runs.result = "raised" => rpc = "ready" /\ NoDuplicates(runs.calls))

C17_Witness ==
    /\ cpc = "raised"
    /\ error = "upload_artifact(ref_data)"
    /\ uploads = <<"in.csv", "ref1.csv">>
    /\ Len(args.ref_data) = 2
    /\ submits = <<>>

(***************************************************************************)
(* Properties of the runner override and of run's reference data           *)
(***************************************************************************)
\* run has resolved its reference data
RefDataResolved ==
    /\ args.cmd = "run"
    /\ cpc \in {"submit", "register_cancel", "container", "start", "poll", "materialize",
                "finish", "done", "exited", "raised"}
    /\ error # "upload_artifact(in_data)"

\* C18: in run, after the reference data is resolved the caller's mapping
\* still holds the genuine path of every key; under LOCAL the container is
\* configured with the genuine paths and _submit gets "__local__" for the same
\* keys.
C18_CallerRefDataKeepsPaths ==
    RefDataResolved =>
        /\ Len(ref_data.ref_dict) = Len(args.ref_data)
        /\ \A i \in 1..Len(args.ref_data) : ref_data.ref_dict[i].src = args.ref_data[i]
        /\ (runner = RunnerLocal /\ container.state # "none" =>
              container.ref_data.ref_dict = ref_data.ref_dict)
        /\ (runner = RunnerLocal =>
              \A k \in 1..Len(submits) :
                  /\ Len(submits[k].ref_data.ref_dict) = Len(ref_data.ref_dict)
                  /\ \A i \in 1..Len(ref_data.ref_dict) :
                        /\ submits[k].ref_data.ref_dict[i].key = ref_data.ref_dict[i].key
                        /\ submits[k].ref_data.ref_dict[i].src = LOCAL_SENTINEL)

C18_Witness ==
    /\ args.cmd = "run"
    /\ runner = RunnerLocal
    /\ Len(args.ref_data) = 2
    /\ container.state = "started"
    /\ container.ref_data.ref_dict[2].src = "ref2.csv"
    /\ Len(submits) = 1
    /\ submits[1].ref_data.ref_dict[2].src = LOCAL_SENTINEL

\* C19: the runner used after _check_model_and_runner is LOCAL for a CLOUD
\* request on a model that is not cloud-native and the requested runner
\* otherwise, so no job is submitted with runner CLOUD for such a model.
C19_CloudRequestForLocalModelBecomesLocal ==
    cpc \notin {"idle", "check_runner"} =>
        /\ runner = (IF args.runner = RunnerCloud /\ ~args.is_cloud_model
                     THEN RunnerLocal ELSE args.runner)
        /\ \A i \in 1..Len(submits) :
              ~(submits[i].runner_mode = RunnerCloud /\ ~args.is_cloud_model)

\* C20 as stated: declared run mode CLOUD with a model path is always
\* rejected with the error naming --model-path and no job is created.
C20_DeclaredCloudWithModelPathRejected ==
    (Validated /\ args.runner = RunnerCloud /\ Truthy(args.model_path)) =>
        /\ Rejected
        /\ error = "--model-path"
        /\ submits = <<>>

\* C20 amended: declared run mode CLOUD with a model path is rejected with
\* the error naming --model-path, and no job is created, whenever the runner
\* is still CLOUD after _check_model_and_runner, which is always so for a
\* cloud-native model; when the runner was changed to LOCAL the LOCAL rules
\* apply: rejected naming --output without an output, accepted with one.
C20_EffectiveCloudWithModelPathRejected ==
    (Validated /\ args.runner = RunnerCloud /\ Truthy(args.model_path)) =>
        /\ (args.is_cloud_model => runner = RunnerCloud)
        /\ runner \in {RunnerCloud, RunnerLocal}
        /\ (runner = RunnerCloud => Rejected /\ error = "--model-path" /\ submits = <<>>)
        /\ (runner = RunnerLocal =>
              /\ (Rejected <=> ~Truthy(args.output))
              /\ (Rejected => error = "--output" /\ submits = <<>>))

C20_Witness ==
    /\ Rejected
    /\ args.runner = RunnerCloud
    /\ runner = RunnerCloud
    /\ args.is_cloud_model
    /\ Truthy(args.model_path)
    /\ error = "--model-path"

(***************************************************************************)
(* Properties of the run modes                                             *)
(***************************************************************************)
\* the command is past the decision of records.py:205
PastContainerDecision ==
    cpc \in {"start", "poll", "materialize", "finish", "done", "exited"}

\* C21: a ContainerRun is created if and only if the runner in effect is
\* LOCAL, and no execution calls both download_artifacts and
\* extract_output_dir: the download is made only under CLOUD, the extraction
\* only under LOCAL, and neither under MANUAL.
C21_ContainerIffLocalArtifactsByMode ==
    /\ (container.state # "none" <=> "from_job" \in Range(calls))
    /\ (container.state # "none" => runner = RunnerLocal)
    /\ (PastContainerDecision /\ runner = RunnerLocal => container.state # "none")
    /\ ~({"download_artifacts", "extract_output_dir"} \subseteq Range(calls))
    /\ ("download_artifacts" \in Range(calls) => runner = RunnerCloud)
    /\ ("extract_output_dir" \in Range(calls) => runner = RunnerLocal)
    /\ (runner = RunnerManual =>
          /\ "download_artifacts" \notin Range(calls)
          /\ "extract_output_dir" \notin Range(calls))

C21_Witness ==
    /\ cpc = "done"
    /\ args.runner = RunnerCloud
    /\ runner = RunnerLocal
    /\ container.state = "started"
    /\ "extract_output_dir" \in Range(calls)
    /\ "download_artifacts" \notin Range(calls)

(***************************************************************************)
(* Properties of the poller's sleeps and of its termination                *)
(***************************************************************************)
\* C22: every refresh attempt comes right after exactly one sleep, the first
\* one included, so at every exit as many sleeps as refresh attempts were
\* made; once the counter has reached 5 lost contact is raised with no
\* further sleep or refresh.
C22_OneSleepBeforeEveryRefresh ==
    /\ sleeps = Len(history) + (IF pc = "refresh" THEN 1 ELSE 0)
    /\ (PollerEnded => sleeps = Len(history))
    /\ (pc \in {"sleep", "refresh"} => refresh_attempts < RefreshLimit)
    /\ (pc = "lost_contact" => refresh_attempts = RefreshLimit)
    /\ (pc = "refresh" /\ history = <<>> => sleeps = 1)

C22_Witness ==
    /\ pc = "lost_contact"
    /\ refresh_attempts = 5
    /\ sleeps = 6
    /\ Len(history) = 6
    /\ history[1] = ACTIVE

\* refresh attempts made since the job reached an end state at the service
AttemptsSinceEnd == Len(history) - ended_at

\* C23: the poller has no timeout of its own, but once the job's status at
\* the service is an end state the poller ends (returns, raises unsuccessful
\* completion, or raises lost contact) within at most 5 further refresh
\* attempts, whatever refreshes succeed or fail; while the status at the
\* service is not an end state the poller ends only by lost contact, that is
\* only after 5 failures in a row, however many attempts it has made.
C23_EndsWithinFiveAttemptsOfJobEnd ==
    /\ (ended_at >= 0 <=> remote \in END_STATES)
    /\ (remote \in END_STATES =>
          /\ AttemptsSinceEnd <= RefreshLimit
          /\ (pc \in {"sleep", "refresh"} => AttemptsSinceEnd < RefreshLimit)
          /\ (pc = "check" /\ AttemptsSinceEnd = RefreshLimit =>
                LostContact(refresh_attempts))
          /\ (pc = "inspect" /\ AttemptsSinceEnd = RefreshLimit =>
                status \in END_STATES \/ LostContact(refresh_attempts)))
    /\ (remote \notin END_STATES /\ PollerEnded =>
          /\ pc = "lost_contact"
          /\ TrailingFails(history) >= RefreshLimit)

C23_Witness ==
    /\ pc = "lost_contact"
    /\ remote \in END_STATES
    /\ status \notin END_STATES
    /\ ended_at = 2
    /\ history[1] = FAIL
    /\ history[2] \in Status
    /\ AttemptsSinceEnd = 5

(***************************************************************************)
(* Properties of the report's contents                                     *)
(***************************************************************************)
\* C24: for every runner mode, once run() has returned normally both
\* _report_dict and _report_html were assigned by a job run, so the flag
\* _model_run is set only with both assigned and as_dict and as_html read
\* afterwards return report content, neither raising.
C24_ReturnedRunPopulatedContents ==
    /\ (report._model_run => report._report_dict # 0 /\ report._report_html # 0)
    /\ (runs.returned > 0 =>
          /\ Accessor(report, report._report_dict).result = "value"
          /\ Accessor(report, report._report_html).result = "value")
    /\ (read.accessor # "none" /\ read.successes > 0 => read.result = "value")

\* as_dict and as_html both return a value when read now
BothAccessorsReturn ==
    /\ rpc = "ready"
    /\ Accessor(report, report._report_dict).result = "value"
    /\ Accessor(report, report._report_html).result = "value"

\* C25: over any sequence of run() calls, when as_dict and as_html both
\* return values these come from the same job run, and that run is the
\* latest one, which returned normally: a run() that failed part-way leaves
\* neither a dictionary and an HTML of different runs nor the results of an
\* earlier run to be returned.
C25_AccessorsAgreeOnLatestRun ==
    BothAccessorsReturn =>
        /\ Accessor(report, report._report_dict).value
             = Accessor(report, report._report_html).value
        /\ runs.result = "returned"
        /\ Accessor(report, report._report_dict).value = runs.started

====
